---------------------------- MODULE Spec2Model ----------------------------
(***************************************************************************)
(* A model of subtitle-processor: the line formatter (formatter.ts), the   *)
(* name dictionary and translator, the group splitter, the record builders *)
(* and the SubtitleList passes (subtitles.ts), and the entry points of     *)
(* index.ts.                                                               *)
(*                                                                         *)
(* A JavaScript string is a sequence of characters; a character is a       *)
(* one-token TLA+ string.  Printable ASCII characters stand for            *)
(* themselves; the others are named:                                       *)
(*   "LF" \n   "CR" \r   "TAB" \t   "DQ" the straight double quote         *)
(*   "LDQ" "RDQ" the curly double quotes   "FWQ" "FWE" the full-width      *)
(*   question and exclamation marks   "NOTE" the music sign   "MIDDOT" the *)
(*   name delimiter   "zh1".."zh4" four distinct CJK characters.           *)
(* null and undefined are the two sentinels Null and Undefined, which are  *)
(* no string over these characters.                                        *)
(***************************************************************************)
EXTENDS Integers, Sequences, FiniteSets, TLC

VARIABLES
  text,     \* the string handed to the operation under test
  entries,  \* the structured entries text was written from (test data)
  dict,     \* the raw name dictionary, an insertion-ordered key/value list
  lines,    \* SubtitleList.lines
  result,   \* the value the last call returned
  err,      \* the exception the last call raised, NoError if none
  ops       \* the calls made so far, oldest first

vars == <<text, entries, dict, lines, result, err, ops>>

----------------------------------------------------------------------------
(* Bounds of the model *)

MaxLen == 3
MaxLines == 2
MaxEntries == 3
MaxDictEntries == 2
MaxOps == 2

----------------------------------------------------------------------------
(* JavaScript values and character classes *)

Null == <<"null">>
Undefined == <<"undefined">>

\* !x for a value that is a string, null or undefined
Truthy(s) == s # Null /\ s # Undefined /\ s # <<>>

NoError == [name |-> "none", message |-> <<>>]
\* the TypeErrors of the program; the message names the place, the wording
\* is the engine's
NullHasNoForEach == [name |-> "TypeError", message |-> <<"forEach of null">>]
TestHasNoReceiver ==
  [name |-> "TypeError", message |-> <<"RegExp.prototype.test without receiver">>]
ReduceOfEmptyArray ==
  [name |-> "TypeError", message |-> <<"reduce of empty array with no initial value">>]

\* \s, over the characters of the model
WS == {" ", "TAB", "LF", "CR"}
\* the characters . does not match
LineTerminators == {"LF", "CR"}
Digits == {"0", "1", "2", "3", "4", "5", "6", "7", "8", "9"}
Capitals == {"A", "B", "C", "D", "E", "F", "G", "H", "I", "J", "K", "L", "M",
             "N", "O", "P", "Q", "R", "S", "T", "U", "V", "W", "X", "Y", "Z"}
Quotes == {"DQ", "LDQ", "RDQ"}

NAME_DELIMITER == "MIDDOT"
EOL == <<"CR", "LF">>

\* all strings over alphabet A of length at most n
Strs(A, n) == UNION {[1..k -> A] : k \in 0..n}

----------------------------------------------------------------------------
(* String primitives *)

\* greedy C*: the first index >= i of s that holds no character of C
SkipIn(s, i, C) ==
  IF i > Len(s) THEN i
  ELSE CHOOSE j \in i..(Len(s) + 1) :
         /\ \A k \in i..(j - 1) : s[k] \in C
         /\ (j = Len(s) + 1 \/ s[j] \notin C)

\* greedy [^C]*
SkipNotIn(s, i, C) ==
  IF i > Len(s) THEN i
  ELSE CHOOSE j \in i..(Len(s) + 1) :
         /\ \A k \in i..(j - 1) : s[k] \notin C
         /\ (j = Len(s) + 1 \/ s[j] \in C)

\* the literal p occurs in s at index i
At(s, i, p) ==
  /\ i >= 1
  /\ i + Len(p) - 1 <= Len(s)
  /\ \A k \in 1..Len(p) : s[i + k - 1] = p[k]

\* the least element of a non-empty set of indices
Least(S) == CHOOSE h \in S : \A g \in S : h <= g

\* the index of the first occurrence of p in s at or after i, 0 if none
IndexOf(s, p, i) ==
  LET hits == {h \in i..(Len(s) + 1) : At(s, h, p)}
  IN IF hits = {} THEN 0 ELSE Least(hits)

\* String.prototype.replace(p, r) with p a string: the first occurrence only
ReplaceFirstLiteral(s, p, r) ==
  LET i == IndexOf(s, p, 1)
  IN IF i = 0 THEN s
     ELSE SubSeq(s, 1, i - 1) \o r \o SubSeq(s, i + Len(p), Len(s))

\* String.prototype.split(sep) with sep a non-empty string
Split(s, sep) ==
  LET f[i \in 1..(Len(s) + 1)] ==
        LET h == IndexOf(s, sep, i)
        IN IF h = 0 THEN <<SubSeq(s, i, Len(s))>>
           ELSE <<SubSeq(s, i, h - 1)>> \o f[h + Len(sep)]
  IN f[1]

\* Array.prototype.join(sep)
Join(list, sep) ==
  LET f[k \in 0..Len(list)] ==
        IF k = 0 THEN <<>>
        ELSE IF k = 1 THEN list[1]
        ELSE f[k - 1] \o sep \o list[k]
  IN f[Len(list)]

\* replace(/^\s*/, "")
TrimStart(s) == SubSeq(s, SkipIn(s, 1, WS), Len(s))

\* replace(/\s*$/, "") and replace(/\s+$/, ""): cut at the leftmost index from
\* which only white space follows
TrimEnd(s) ==
  LET i == CHOOSE j \in 1..(Len(s) + 1) :
             /\ \A k \in j..Len(s) : s[k] \in WS
             /\ (j = 1 \/ s[j - 1] \notin WS)
  IN SubSeq(s, 1, i - 1)

----------------------------------------------------------------------------
(* Regular expressions.  A pattern applied to a string s is given by the   *)
(* function ends: ends[i] is the index just past the match the engine      *)
(* finds starting at index i of s (greedy quantifiers, first alternative   *)
(* first), or 0 if there is no match at i.  Every pattern of the program   *)
(* that is applied globally or in a split matches at least one character.  *)

\* the same replacement string r for every match
Const(s, r) == [i \in 1..Len(s) |-> r]

\* String.prototype.replace with a global pattern; reps[i] is the
\* replacement of the match that starts at i
ReplaceAll(s, ends, reps) ==
  LET f[i \in 1..(Len(s) + 1)] ==
        IF i > Len(s) THEN <<>>
        ELSE IF ends[i] > i THEN reps[i] \o f[ends[i]]
        ELSE <<s[i]>> \o f[i + 1]
  IN f[1]

\* String.prototype.replace with a pattern that is not global: the leftmost
\* match only
ReplaceFirst(s, ends, r) ==
  LET hits == {i \in 1..Len(s) : ends[i] > i}
  IN IF hits = {} THEN s
     ELSE SubSeq(s, 1, Least(hits) - 1) \o r \o SubSeq(s, ends[Least(hits)], Len(s))

\* String.prototype.match with a global pattern: the matches from left to
\* right; the empty list stands for the null returned when there is none
MatchAll(s, ends) ==
  LET f[i \in 1..(Len(s) + 1)] ==
        IF i > Len(s) THEN <<>>
        ELSE IF ends[i] > i THEN <<SubSeq(s, i, ends[i] - 1)>> \o f[ends[i]]
        ELSE f[i + 1]
  IN f[1]

\* String.prototype.split with a pattern: the pieces between the matches,
\* each followed by caps[i], the capture groups of the match that ends it
SplitOn(s, ends, caps) ==
  LET f[p \in 1..(Len(s) + 1)] ==
        LET hits == {q \in p..Len(s) : ends[q] > q}
        IN IF hits = {} THEN <<SubSeq(s, p, Len(s))>>
           ELSE <<SubSeq(s, p, Least(hits) - 1)>> \o caps[Least(hits)]
                \o f[ends[Least(hits)]]
  IN f[1]

\* /\s*[C]\s*/ at index i, for a character class C
MatchSpaced(s, i, C) ==
  IF SkipIn(s, i, WS) <= Len(s) /\ s[SkipIn(s, i, WS)] \in C
  THEN SkipIn(s, SkipIn(s, i, WS) + 1, WS)
  ELSE 0

\* replace(/\s*[C]\s*/g, r): r is $1 followed by a space when withGroup
\* (the group is the character of C that matched), else the string r
ReplaceSpaced(s, C, r, withGroup) ==
  ReplaceAll(s, [i \in 1..Len(s) |-> MatchSpaced(s, i, C)],
             [i \in 1..Len(s) |->
                IF withGroup /\ SkipIn(s, i, WS) <= Len(s)
                THEN <<s[SkipIn(s, i, WS)], " ">> ELSE r])

\* replace(/c/g, r) for a single character c
ReplaceChar(s, c, r) ==
  ReplaceAll(s, [i \in 1..Len(s) |-> IF s[i] = c THEN i + 1 ELSE 0], Const(s, r))

\* /\r\n?/ at index i
MatchEol(s, i) ==
  IF s[i] = "CR"
  THEN (IF i + 1 <= Len(s) /\ s[i + 1] = "LF" THEN i + 2 ELSE i + 1)
  ELSE 0

\* replace(/\r\n?/g, "\n")
NormalizeEol(s) ==
  ReplaceAll(s, [i \in 1..Len(s) |-> MatchEol(s, i)], Const(s, <<"LF">>))

----------------------------------------------------------------------------
(* formatter.ts: the line formatters.  A call's outcome is the value it    *)
(* returns or the exception it raises.                                     *)

Ok(v) == [value |-> v, err |-> NoError]
Throw(e) == [value |-> Undefined, err |-> e]

formatDialogIfIsDialog(line) ==
  IF ~Truthy(line) THEN line
  ELSE
    \* /^\s*-\s*([^\s-][^-]*)\s*-?\s*(.+)?$/
    LET d == SkipIn(line, 1, WS)                \* the leading dash
        k == SkipIn(line, d + 1, WS)            \* the start of group 1
        m == SkipNotIn(line, k, {"-"})          \* just past group 1
        t == SkipIn(line, m + 1, WS)            \* the start of group 2
        matched ==
          /\ d <= Len(line) /\ line[d] = "-"
          /\ k <= Len(line) /\ line[k] # "-"
          \* . matches no line terminator, and $ only the end of the line
          /\ \A x \in t..Len(line) : line[x] \notin LineTerminators
        first == TrimEnd(SubSeq(line, k, m - 1))
        second == IF t <= Len(line) THEN SubSeq(line, t, Len(line)) ELSE Undefined
    IN IF ~matched THEN line
       ELSE IF ~Truthy(second) THEN first
       ELSE <<"-", " ">> \o first \o <<" ", " ", "-", " ">> \o TrimEnd(second)

formatLyricsIfIsLyrics(line) ==
  IF ~Truthy(line) THEN line
  ELSE
    \* /^\s*#\s*([^\s#][^#]*)\s*#?\s*$/
    LET d == SkipIn(line, 1, WS)                \* the leading pound
        k == SkipIn(line, d + 1, WS)            \* the start of the group
        m == SkipNotIn(line, k, {"#"})          \* just past the group
        matched ==
          /\ d <= Len(line) /\ line[d] = "#"
          /\ k <= Len(line) /\ line[k] # "#"
          /\ (m = Len(line) + 1 \/ SkipIn(line, m + 1, WS) = Len(line) + 1)
    IN IF ~matched THEN line
       ELSE <<"#", " ">> \o TrimEnd(SubSeq(line, k, m - 1)) \o <<" ", "#">>

Dots == <<".", ".", ".">>
Placeholder == <<"&", "&", "&">>

\* /(^|-\s*)\.\.\./ at index i
MatchLeadingEllipsis(s, i) ==
  IF i = 1 /\ At(s, 1, Dots) THEN 4
  ELSE IF s[i] = "-" /\ At(s, SkipIn(s, i + 1, WS), Dots)
  THEN SkipIn(s, i + 1, WS) + 3
  ELSE 0

\* line.replace(/(^|-\s*)\.\.\./g, "$1"): a match without its three dots
DeleteLeadingEllipsis(line) ==
  ReplaceAll(line, [i \in 1..Len(line) |-> MatchLeadingEllipsis(line, i)],
             [i \in 1..Len(line) |->
                IF MatchLeadingEllipsis(line, i) > i
                THEN SubSeq(line, i, MatchLeadingEllipsis(line, i) - 4)
                ELSE <<>>])

\* /\s*\.\.\.\s*/ at index i
MatchEllipsis(s, i) ==
  IF At(s, SkipIn(s, i, WS), Dots) THEN SkipIn(s, SkipIn(s, i, WS) + 3, WS) ELSE 0

\* line.replace(/\s*\.\.\.\s*/g, "&&& ")
PlaceEllipsis(line) ==
  ReplaceAll(line, [i \in 1..Len(line) |-> MatchEllipsis(line, i)],
             Const(line, Placeholder \o <<" ">>))

\* the question mark, exclamation mark, comma and period rules
SpacePunctuations(line) ==
  ReplaceSpaced(
    ReplaceSpaced(
      ReplaceSpaced(line, {"FWQ", "?"}, <<"?", " ">>, FALSE),
      {"FWE", "!"}, <<"!", " ">>, FALSE),
    {",", "."}, <<>>, TRUE)

\* /([A-Z]\.\s*)+/ at index i
MatchAbbreviation(s, i) ==
  LET f[j \in 1..(Len(s) + 1)] ==
        IF j + 1 <= Len(s) /\ s[j] \in Capitals /\ s[j + 1] = "."
        THEN f[SkipIn(s, j + 2, WS)]
        ELSE j
  IN IF f[i] > i THEN f[i] ELSE 0

\* line.match(/([A-Z]\.\s*)+/g)
Abbreviations(line) ==
  MatchAll(line, [i \in 1..Len(line) |-> MatchAbbreviation(line, i)])

\* abbreviation.replace(/\.\s*/g, ".")
ClosePeriods(abbreviation) ==
  ReplaceAll(abbreviation,
             [i \in 1..Len(abbreviation) |->
                IF abbreviation[i] = "." THEN SkipIn(abbreviation, i + 1, WS) ELSE 0],
             Const(abbreviation, <<".">>))

\* the forEach over the abbreviations found
FixAbbreviations(line, abbreviations) ==
  LET f[k \in 0..Len(abbreviations)] ==
        IF k = 0 THEN line
        ELSE ReplaceFirstLiteral(f[k - 1], abbreviations[k],
                                 ClosePeriods(abbreviations[k]) \o <<" ">>)
  IN f[Len(abbreviations)]

\* line.replace(/^\s*["LDQ RDQ]\s*/, DQ)
FixQuoteAtStart(line) ==
  ReplaceFirst(line,
               [i \in 1..Len(line) |->
                  IF i = 1 THEN MatchSpaced(line, 1, Quotes) ELSE 0],
               <<"DQ">>)

\* line.replace(/\s*["LDQ RDQ]\s*$/, DQ)
FixQuoteAtEnd(line) ==
  ReplaceFirst(line,
               [i \in 1..Len(line) |->
                  IF MatchSpaced(line, i, Quotes) = Len(line) + 1
                  THEN Len(line) + 1 ELSE 0],
               <<"DQ">>)

\* line.replace(/&&&/, "...")
RestoreEllipsis(line) == ReplaceFirstLiteral(line, Placeholder, Dots)

\* formatPunctuations from the abbreviations on; match returns null when
\* nothing matches, and null has no forEach
FixAbbreviationsAndQuotes(line) ==
  IF Abbreviations(line) = <<>> THEN Throw(NullHasNoForEach)
  ELSE Ok(RestoreEllipsis(FixQuoteAtEnd(FixQuoteAtStart(
            FixAbbreviations(line, Abbreviations(line))))))

formatPunctuations(line) ==
  IF ~Truthy(line) THEN Ok(line)
  ELSE FixAbbreviationsAndQuotes(
         SpacePunctuations(PlaceEllipsis(DeleteLeadingEllipsis(line))))

CREDIT == <<"S", "y", "n", "c", "e", "d", " ", "a", "n", "d", " ",
            "c", "o", "r", "r", "e", "c", "t", "e", "d", " ", "b", "y">>

\* ccLine.replace(/\[[^\]]]/g, " "): an opening bracket, one character that
\* is no closing bracket, a closing bracket
DropHearingAids(ccLine) ==
  ReplaceAll(ccLine,
             [i \in 1..Len(ccLine) |->
                IF /\ i + 2 <= Len(ccLine)
                   /\ ccLine[i] = "["
                   /\ ccLine[i + 1] # "]"
                   /\ ccLine[i + 2] = "]"
                THEN i + 3 ELSE 0],
             Const(ccLine, <<" ">>))

\* ccLine.replace(/<\/?i>/g, " ")
DropItalics(ccLine) ==
  ReplaceAll(ccLine,
             [i \in 1..Len(ccLine) |->
                IF At(ccLine, i, <<"<", "i", ">">>) THEN i + 3
                ELSE IF At(ccLine, i, <<"<", "/", "i", ">">>) THEN i + 4
                ELSE 0],
             Const(ccLine, <<" ">>))

\* ccLine.replace(/\s+/g, " ")
CollapseSpaces(ccLine) ==
  ReplaceAll(ccLine,
             [i \in 1..Len(ccLine) |->
                IF ccLine[i] \in WS THEN SkipIn(ccLine, i, WS) ELSE 0],
             Const(ccLine, <<" ">>))

\* ccLine.replace(/^_+$/, "")
DropUnderscores(ccLine) ==
  IF ccLine # <<>> /\ \A k \in 1..Len(ccLine) : ccLine[k] = "_"
  THEN <<>> ELSE ccLine

\* the end of ccCleanup: null for a line /^\s*$/ matches
NullIfBlank(ccLine) ==
  IF \A k \in 1..Len(ccLine) : ccLine[k] \in WS THEN Null ELSE ccLine

ccCleanup(ccLine) ==
  IF ccLine = Null \/ ccLine = Undefined THEN ccLine
  ELSE IF IndexOf(ccLine, CREDIT, 1) > 0 THEN Null
  ELSE NullIfBlank(DropUnderscores(TrimEnd(TrimStart(
         CollapseSpaces(DropItalics(ReplaceChar(
           DropHearingAids(ccLine), "NOTE", <<"#">>)))))))

----------------------------------------------------------------------------
(* formatter.ts: the name dictionary.  An object is the list of its        *)
(* key/value pairs in insertion order, which is the order Object.keys      *)
(* gives for keys that are not array indices.                              *)

\* obj[key] = val
Put(obj, key, val) ==
  IF \E k \in 1..Len(obj) : obj[k].key = key
  THEN [k \in 1..Len(obj) |->
          IF obj[k].key = key THEN [key |-> key, val |-> val] ELSE obj[k]]
  ELSE Append(obj, [key |-> key, val |-> val])

\* Object.keys(obj)
Keys(obj) == [k \in 1..Len(obj) |-> obj[k].key]

\* obj[key], for a key of obj
Get(obj, key) == obj[CHOOSE k \in 1..Len(obj) : obj[k].key = key].val

\* entry.split(/\s*=\s*/)
SplitOnEquals(entry) ==
  SplitOn(entry, [i \in 1..Len(entry) |-> MatchSpaced(entry, i, {"="})],
          Const(entry, <<>>))

\* the body of the entries.forEach of constructRawNameDict, given names
PutEntry(nameDict, names) ==
  IF Len(names) >= 2 /\ Truthy(names[2])
  THEN Put(nameDict, names[1], TrimEnd(names[2]))
  ELSE nameDict

\* the entries.forEach of constructRawNameDict
PutEntries(entryList) ==
  LET f[k \in 0..Len(entryList)] ==
        IF k = 0 THEN <<>>
        ELSE PutEntry(f[k - 1], SplitOnEquals(entryList[k]))
  IN f[Len(entryList)]

constructRawNameDict(t) == PutEntries(Split(NormalizeEol(t), <<"LF">>))

\* chs.split(/[MIDDOT\/]/)
SplitOnDelimiter(chs) ==
  SplitOn(chs,
          [i \in 1..Len(chs) |-> IF chs[i] \in {"MIDDOT", "/"} THEN i + 1 ELSE 0],
          Const(chs, <<>>))

\* the engSegments.forEach of organizeNameDict, run when the two lists are
\* of one length
PutSegments(halfNames, engSegments, chsSegments) ==
  IF Len(engSegments) # Len(chsSegments) THEN halfNames
  ELSE LET f[k \in 0..Len(engSegments)] ==
             IF k = 0 THEN halfNames
             ELSE Put(f[k - 1], engSegments[k], chsSegments[k])
       IN f[Len(engSegments)]

\* the body of the forEach of organizeNameDict for one entry
Organize(organized, eng, chs) ==
  IF \E x \in 1..Len(chs) : chs[x] \in {"MIDDOT", "/"}
  THEN [fullNames |->
          Put(organized.fullNames, eng, ReplaceChar(chs, "/", <<NAME_DELIMITER>>)),
        partialNames |->
          PutSegments(organized.partialNames, Split(eng, <<" ">>),
                      SplitOnDelimiter(chs))]
  ELSE organized

organizeNameDict(rawNameDict) ==
  LET f[k \in 0..Len(rawNameDict)] ==
        IF k = 0 THEN [fullNames |-> <<>>, partialNames |-> <<>>]
        ELSE Organize(f[k - 1], rawNameDict[k].key, rawNameDict[k].val)
  IN f[Len(rawNameDict)]

\* subString.replace(new RegExp(eng, "g"), r), for a key eng that holds no
\* character special in a regular expression and an r without "$"; the empty
\* pattern matches before every character and at the end
ReplaceAllLiteral(s, p, r) ==
  LET f[i \in 1..(Len(s) + 1)] ==
        IF p = <<>>
        THEN r \o (IF i > Len(s) THEN <<>> ELSE <<s[i]>> \o f[i + 1])
        ELSE IF i > Len(s) THEN <<>>
        ELSE IF At(s, i, p) THEN r \o f[i + Len(p)]
        ELSE <<s[i]>> \o f[i + 1]
  IN f[1]

Reverse(list) == [k \in 1..Len(list) |-> list[Len(list) + 1 - k]]

\* keys.sort((name) => name.length): the comparator is handed two keys and
\* answers with the length of the first, so it says "the first sorts after
\* the second" of every pair of non-empty keys.  It is no consistent
\* comparator, and the order sort leaves is the engine's: a binary-insertion
\* or merge sort that asks cmp(later, earlier) leaves the list as it is, an
\* insertion sort that asks cmp(earlier, later) reverses it.
SortByLengthComparator(keys) == {keys, Reverse(keys)}

\* the orders sort().reverse() can produce for the keys of a table
KeyOrders(table) == {Reverse(o) : o \in SortByLengthComparator(Keys(table))}

\* the forEach over the keys of one table, in the order given
ReplaceKeys(subString, table, order) ==
  LET f[k \in 0..Len(order)] ==
        IF k = 0 THEN subString
        ELSE ReplaceAllLiteral(f[k - 1], order[k], Get(table, order[k]))
  IN f[Len(order)]

\* formatter.translateNames, with the two orders sort().reverse() produced
translateNames(subString, nameDict, fullOrder, partialOrder) ==
  ReplaceKeys(ReplaceKeys(subString, nameDict.fullNames, fullOrder),
              nameDict.partialNames, partialOrder)

----------------------------------------------------------------------------
(* subtitles.ts: the group splitter and the record builders *)

\* /\n *([0-9]+ *\n)/ at index i, given j, the index past the spaces that
\* follow the "\n", and k, the index past the digits
MatchIndexLineFrom(s, i, j, k) ==
  IF /\ s[i] = "LF"
     /\ k > j
     /\ SkipIn(s, k, {" "}) <= Len(s)
     /\ s[SkipIn(s, k, {" "})] = "LF"
  THEN SkipIn(s, k, {" "}) + 1
  ELSE 0

MatchIndexLine(s, i) ==
  MatchIndexLineFrom(s, i, SkipIn(s, i + 1, {" "}),
                     SkipIn(s, SkipIn(s, i + 1, {" "}), Digits))

\* subString.split(/\n *([0-9]+ *\n)/g): the group is the index line
SplitOnIndexLines(s) ==
  SplitOn(s, [i \in 1..Len(s) |-> MatchIndexLine(s, i)],
          [i \in 1..Len(s) |->
             IF MatchIndexLine(s, i) > i
             THEN <<SubSeq(s, SkipIn(s, i + 1, {" "}), MatchIndexLine(s, i) - 1)>>
             ELSE <<>>])

\* /^[0-9]+\s*\n$/.test(token)
IsIndexToken(token) ==
  /\ SkipIn(token, 1, Digits) > 1
  /\ SkipIn(token, 1, Digits) <= Len(token)
  /\ SkipIn(token, SkipIn(token, 1, Digits), WS) = Len(token) + 1
  /\ token[Len(token)] = "LF"

\* token.replace(/ *\n/g, "\n")
DropSpacesBeforeNewline(token) ==
  ReplaceAll(token,
             [i \in 1..Len(token) |->
                IF /\ SkipIn(token, i, {" "}) <= Len(token)
                   /\ token[SkipIn(token, i, {" "})] = "LF"
                THEN SkipIn(token, i, {" "}) + 1 ELSE 0],
             Const(token, <<"LF">>))

\* the body of the rawList.forEach of splitSubtitleStringIntoGroups
SplitStep(prev, token) ==
  IF IsIndexToken(token)
  THEN [groups |-> Append(prev.groups, TrimEnd(prev.buffer)),
        buffer |-> ReplaceChar(token, " ", <<>>)]
  ELSE [groups |-> prev.groups,
        buffer |-> prev.buffer \o DropSpacesBeforeNewline(token)]

\* the groups when the forEach is over; rawList[1] is the first buffer
SplitLoop(rawList) ==
  LET f[k \in 0..(Len(rawList) - 1)] ==
        IF k = 0 THEN [groups |-> <<>>, buffer |-> rawList[1]]
        ELSE SplitStep(f[k - 1], rawList[k + 1])
  IN f[Len(rawList) - 1].groups

splitSubtitleStringIntoGroups(subString) ==
  SplitLoop(SplitOnIndexLines(NormalizeEol(subString)))

\* entry.slice(from), from counted from 0
Slice(entry, from) == SubSeq(entry, from + 1, Len(entry))

\* entry[k], k counted from 1: undefined past the end
Item(entry, k) == IF k <= Len(entry) THEN entry[k] ELSE Undefined

\* constructCcLineWithStringGroup, given the lines of the group
CcLineOf(entry) ==
  Ok([index |-> Item(entry, 1), timestamp |-> Item(entry, 2),
      eng |-> Join(Slice(entry, 2), <<" ">>), chs |-> Null])

constructCcLineWithStringGroup(group) == CcLineOf(Split(group, <<"LF">>))

\* the error of a group of more than four lines; the first element of the
\* message stands for the characters of the literal it starts with
TooManyLines(group) ==
  [name |-> "Error",
   message |-> <<"There are two many lines in group: ", "DQ">>
               \o group \o <<"DQ">>]

\* constructSubtitleLineWithStringGroup, given the lines of the group
SubtitleLineOf(group, entry) ==
  IF Len(entry) = 3
  THEN Ok([index |-> entry[1], timestamp |-> entry[2],
           eng |-> Null, chs |-> entry[3]])
  ELSE IF Len(entry) = 4
  THEN Ok([index |-> entry[1], timestamp |-> entry[2],
           eng |-> entry[3], chs |-> entry[4]])
  ELSE IF Len(entry) > 4
  THEN Throw(TooManyLines(group))
  ELSE Ok([index |-> Item(entry, 1), timestamp |-> Item(entry, 2),
           eng |-> Null, chs |-> Null])

constructSubtitleLineWithStringGroup(group) ==
  SubtitleLineOf(group, Split(group, <<"LF">>))

\* groupList.map(build), given the outcome of build for every group: the
\* list built, or the first exception raised
MapGroups(built) ==
  IF \A k \in 1..Len(built) : built[k].err = NoError
  THEN Ok([k \in 1..Len(built) |-> built[k].value])
  ELSE Throw(built[Least({k \in 1..Len(built) : built[k].err # NoError})].err)

\* the map of SubtitleList.fromSubtitles
BuildCcLines(groupList) ==
  MapGroups([k \in 1..Len(groupList) |->
               constructCcLineWithStringGroup(groupList[k])])

\* the map of SubtitleList.fromCc
BuildSubtitleLines(groupList) ==
  MapGroups([k \in 1..Len(groupList) |->
               constructSubtitleLineWithStringGroup(groupList[k])])

\* SubtitleList.fromSubtitles
fromSubtitles(subtitleString) ==
  BuildCcLines(splitSubtitleStringIntoGroups(subtitleString))

\* SubtitleList.fromCc
fromCc(ccString) ==
  BuildSubtitleLines(splitSubtitleStringIntoGroups(ccString))

\* index.ts
loadSubtitles(subtitleString) == fromSubtitles(subtitleString)

\* index.ts
loadCc(ccString) == fromCc(ccString)

\* a value as + makes it a string
ToStr(v) ==
  IF v = Undefined THEN <<"u", "n", "d", "e", "f", "i", "n", "e", "d">>
  ELSE IF v = Null THEN <<"n", "u", "l", "l">>
  ELSE v

printSubtitleLine(line) ==
  ToStr(line.index) \o EOL \o ToStr(line.timestamp) \o EOL
  \o (IF Truthy(line.eng) THEN line.eng \o EOL ELSE <<>>)
  \o (IF Truthy(line.chs) THEN line.chs \o EOL ELSE <<>>)

\* SubtitleList.toString
toString(list) ==
  LET f[k \in 0..Len(list)] ==
        IF k = 0 THEN <<>>
        ELSE f[k - 1] \o printSubtitleLine(list[k]) \o EOL
  IN f[Len(list)]

----------------------------------------------------------------------------
(* subtitles.ts: the passes of SubtitleList *)

\* the filter of cleanUpCcLines, line != null: line is an element of
\* this.lines, an object, and no object is null, whatever its eng holds
cleanUpFilter(line) == TRUE

\* SubtitleList.cleanUpCcLines
cleanUpCcLines(list) ==
  SelectSeq([k \in 1..Len(list) |->
               [list[k] EXCEPT !.eng = ccCleanup(list[k].eng)]],
            cleanUpFilter)

\* reformatLine after formatPunctuations, given its outcome
FormatLyricsAndDialog(punctuated) ==
  IF punctuated.err # NoError THEN punctuated
  ELSE Ok(formatDialogIfIsDialog(formatLyricsIfIsLyrics(punctuated.value)))

reformatLine(line) ==
  IF ~Truthy(line) THEN Ok(Null)
  ELSE FormatLyricsAndDialog(formatPunctuations(TrimEnd(TrimStart(line))))

\* a filter that takes the empty string for text
reformatFilterKeepsEmptyText(line) == line.chs # Null \/ line.eng # Null

\* the filter of reformat
reformatFilter(line) == Truthy(line.chs) \/ Truthy(line.eng)

\* record k of the list when the forEach of reformat ends, normally or at
\* record b with an exception (b = 0 if none is raised): the records are
\* rewritten in place and in order, eng before chs
ReformattedRecord(line, eng, chs, k, b) ==
  IF b = 0 \/ k < b
  THEN [line EXCEPT !.eng = eng.value, !.chs = chs.value]
  ELSE IF k = b /\ eng.err = NoError
  THEN [line EXCEPT !.eng = eng.value]
  ELSE line

\* SubtitleList.reformat, given the outcomes of reformatLine for the two
\* fields of every record: this.lines and the exception when it ends.  The
\* filter runs only if the forEach raised nothing.
ReformatWith(list, eng, chs, bad) ==
  IF bad = {}
  THEN [lines |-> SelectSeq([k \in 1..Len(list) |->
                               ReformattedRecord(list[k], eng[k], chs[k], k, 0)],
                            reformatFilter),
        err |-> NoError]
  ELSE [lines |-> [k \in 1..Len(list) |->
                     ReformattedRecord(list[k], eng[k], chs[k], k, Least(bad))],
        err |-> IF eng[Least(bad)].err # NoError
                THEN eng[Least(bad)].err ELSE chs[Least(bad)].err]

\* the records for which reformatLine raises
Raising(eng, chs) ==
  {k \in DOMAIN eng : eng[k].err # NoError \/ chs[k].err # NoError}

\* SubtitleList.reformat, given the outcomes of reformatLine
ReformatOutcome(list, eng, chs) == ReformatWith(list, eng, chs, Raising(eng, chs))

\* SubtitleList.reformat
reformat(list) ==
  ReformatOutcome(list,
                  [k \in 1..Len(list) |-> reformatLine(list[k].eng)],
                  [k \in 1..Len(list) |-> reformatLine(list[k].chs)])

\* SubtitleList.findUntranslatedNames: filter calls RegExp.prototype.test
\* with no receiver for the first record, which raises a TypeError; for a
\* list with no record the reduce, which is given no initial value, raises
\* a TypeError for the empty array
findUntranslatedNames(list) ==
  IF Len(list) > 0 THEN Throw(TestHasNoReceiver) ELSE Throw(ReduceOfEmptyArray)

\* an assignment that stores an empty segment as it is
translatedChsKeepsEmpty(allChsList, index) == Item(allChsList, index)

\* the value translateNames stores in line.chs for segment number index
translatedChs(allChsList, index) ==
  IF Item(allChsList, index) # <<>> THEN Item(allChsList, index) ELSE Null

\* the forEach of SubtitleList.translateNames
AssignChs(list, allChsList) ==
  [k \in 1..Len(list) |-> [list[k] EXCEPT !.chs = translatedChs(allChsList, k)]]

\* the block SubtitleList.translateNames hands to the translator
JoinChs(list) ==
  Join([k \in 1..Len(list) |->
          IF list[k].chs # Null /\ list[k].chs # Undefined
          THEN list[k].chs ELSE <<>>], <<"LF">>)

\* SubtitleList.translateNames, with the orders the two sorts produced
listTranslateNames(list, rawNameDict, fullOrder, partialOrder) ==
  AssignChs(list,
            Split(translateNames(JoinChs(list), organizeNameDict(rawNameDict),
                                 fullOrder, partialOrder),
                  <<"LF">>))

----------------------------------------------------------------------------
(* Test data *)

DigitChars == <<"1", "2", "3", "4", "5", "6", "7", "8", "9">>

\* the index line and the timestamp line of entry number k
IndexText(k) == <<DigitChars[k]>>
Timestamp(k) == <<"0", ":", DigitChars[k]>>

Last(list) == list[Len(list)]

----------------------------------------------------------------------------
(* SpecFormat: one call of one line formatter on one line *)

FormatAlphabet == {"a", "A", ".", "-", "#", " "}

FormatSamples ==
  { <<"H", "i", " ", ",", "t", "h", "e", "r", "e", " ", "!">>,
    <<"-", "H", "i">>,
    <<"#", "l", "a", " ", "l", "a">>,
    <<"NOTE", " ", "l", "a", " ", "<", "i", ">", "l", "a", "<", "/", "i", ">">>,
    CREDIT }

FormatInputs == Strs(FormatAlphabet, MaxLen) \cup FormatSamples \cup {Null}

InitFormat ==
  /\ text \in FormatInputs
  /\ entries = <<>>
  /\ dict = <<>>
  /\ lines = <<>>
  /\ result = Undefined
  /\ err = NoError
  /\ ops = <<>>

CallFormatDialogIfIsDialog ==
  /\ ops = <<>>
  /\ result' = formatDialogIfIsDialog(text)
  /\ err' = NoError
  /\ ops' = <<"formatDialogIfIsDialog">>
  /\ UNCHANGED <<text, entries, dict, lines>>

CallFormatLyricsIfIsLyrics ==
  /\ ops = <<>>
  /\ result' = formatLyricsIfIsLyrics(text)
  /\ err' = NoError
  /\ ops' = <<"formatLyricsIfIsLyrics">>
  /\ UNCHANGED <<text, entries, dict, lines>>

CallFormatPunctuations ==
  /\ ops = <<>>
  /\ result' = formatPunctuations(text).value
  /\ err' = formatPunctuations(text).err
  /\ ops' = <<"formatPunctuations">>
  /\ UNCHANGED <<text, entries, dict, lines>>

CallCcCleanup ==
  /\ ops = <<>>
  /\ result' = ccCleanup(text)
  /\ err' = NoError
  /\ ops' = <<"ccCleanup">>
  /\ UNCHANGED <<text, entries, dict, lines>>

NextFormat ==
  \/ CallFormatDialogIfIsDialog
  \/ CallFormatLyricsIfIsLyrics
  \/ CallFormatPunctuations
  \/ CallCcCleanup

SpecFormat == InitFormat /\ [][NextFormat]_vars

\* C5: the four line formatters are total: for every line, a non-empty line
\* without the formatter's trigger pattern included, the call returns a
\* string or null and raises nothing.
C5_FormattersAreTotal ==
  ops # <<>> => (err = NoError /\ result # Undefined)

----------------------------------------------------------------------------
(* SpecLoad: a well-formed subtitle text is split, or loaded and printed *)

EngLine == <<"H", "i", " ", "A", "l">>
ChsLine == <<"zh1", "zh2">>
ExtraLine == <<"o", "k">>

\* the content lines of an entry: the secondary line alone, the primary and
\* the secondary line, or one line too many
ContentChoices ==
  { <<ChsLine>>, <<EngLine, ChsLine>>, <<EngLine, ChsLine, ExtraLine>> }

\* the entries 1..n, numbered in order
EntryLists(n) ==
  { [k \in 1..n |-> [index |-> IndexText(k), timestamp |-> Timestamp(k),
                      content |-> c[k]]] : c \in [1..n -> ContentChoices] }

\* the lines of an entry, each ended by eol
EntryText(e, eol) ==
  e.index \o eol \o e.timestamp \o eol
  \o Join(e.content, eol) \o eol

\* the subtitle file of the entries: each entry, then a blank line
FileText(es, eol) ==
  LET f[k \in 0..Len(es)] ==
        IF k = 0 THEN <<>>
        ELSE f[k - 1] \o EntryText(es[k], eol) \o eol
  IN f[Len(es)]

InitLoad ==
  /\ \E n \in 1..MaxEntries : entries \in EntryLists(n)
  /\ \E eol \in {<<"LF">>, EOL} : text = FileText(entries, eol)
  /\ dict = <<>>
  /\ lines = <<>>
  /\ result = Undefined
  /\ err = NoError
  /\ ops = <<>>

CallSplitSubtitleStringIntoGroups ==
  /\ ops = <<>>
  /\ result' = splitSubtitleStringIntoGroups(text)
  /\ ops' = <<"splitSubtitleStringIntoGroups">>
  /\ UNCHANGED <<text, entries, dict, lines, err>>

CallLoadSubtitles ==
  /\ ops = <<>>
  /\ LET o == loadSubtitles(text)
     IN /\ lines' = IF o.err = NoError THEN o.value ELSE lines
        /\ err' = o.err
  /\ ops' = <<"loadSubtitles">>
  /\ UNCHANGED <<text, entries, dict, result>>

CallLoadCc ==
  /\ ops = <<>>
  /\ LET o == loadCc(text)
     IN /\ lines' = IF o.err = NoError THEN o.value ELSE lines
        /\ err' = o.err
  /\ ops' = <<"loadCc">>
  /\ UNCHANGED <<text, entries, dict, result>>

CallToString ==
  /\ Len(ops) = 1
  /\ ops[1] \in {"loadSubtitles", "loadCc"}
  /\ err = NoError
  /\ result' = toString(lines)
  /\ ops' = Append(ops, "toString")
  /\ UNCHANGED <<text, entries, dict, lines, err>>

NextLoad ==
  \/ CallSplitSubtitleStringIntoGroups
  \/ CallLoadSubtitles
  \/ CallLoadCc
  \/ CallToString

SpecLoad == InitLoad /\ [][NextLoad]_vars

\* the group of an entry: its lines, separated by "\n"
GroupOf(e) == Join(<<e.index, e.timestamp>> \o e.content, <<"LF">>)

\* C1: for a well-formed text of N >= 2 entries, splitSubtitleStringIntoGroups
\* returns exactly N groups, one per index line and in input order, the last
\* entry included.
C1_SplitReturnsEveryEntry ==
  (ops = <<"splitSubtitleStringIntoGroups">> /\ Len(entries) >= 2)
    => /\ Len(result) = Len(entries)
       /\ \A k \in 1..Len(entries) : result[k] = GroupOf(entries[k])

\* C2: for a well-formed text whose entries have one or two content lines,
\* loadSubtitles followed by toString prints every entry of the input, in
\* order, with its index, its timestamp and its content lines, each on a
\* line of its own (only the line endings differ from the input).
C2_RoundTrip ==
  ( /\ ops = <<"loadSubtitles", "toString">>
    /\ \A k \in 1..Len(entries) : Len(entries[k].content) <= 2 )
    => result = FileText(entries, EOL)

\* C3: loadSubtitles raises the malformed-group error, its message holding
\* the text of the offending group, whenever a group has more than two
\* content lines, and returns no list then.
C3_MalformedGroupRaises ==
  LET bad == {k \in 1..Len(entries) : Len(entries[k].content) > 2}
  IN (ops = <<"loadSubtitles">> /\ bad # {})
       => /\ err = TooManyLines(GroupOf(entries[Least(bad)]))
          /\ lines = <<>>

----------------------------------------------------------------------------
(* SpecList: the passes of a SubtitleList, on a list of records.  An       *)
(* exception a pass raises is not caught: it ends the run.                 *)

ListAlphabet == {"A", ".", "-", "#", " "}

\* the texts of the first record of a list
WideTexts == Strs(ListAlphabet, MaxLen) \cup {Null}

\* the fields (eng, chs) of the records after the first
NarrowFields ==
  { <<Null, <<"A", ".">>>>, <<<<" ">>, Null>>, <<CREDIT, Null>> }

Record(k, eng, chs) ==
  [index |-> IndexText(k), timestamp |-> Timestamp(k), eng |-> eng, chs |-> chs]

\* the lists of n records
Lists(n) ==
  IF n = 0 THEN {<<>>}
  ELSE { [k \in 1..n |->
            IF k = 1 THEN Record(1, e, c) ELSE Record(k, rest[k][1], rest[k][2])]
         : e \in WideTexts, c \in {Null, <<"A", ".">>},
           rest \in [1..n -> NarrowFields] }

InitList ==
  /\ \E n \in 0..MaxLines : lines \in Lists(n)
  /\ entries = lines
  /\ text = <<>>
  /\ dict = <<>>
  /\ result = Undefined
  /\ err = NoError
  /\ ops = <<>>

CallCleanUpCcLines ==
  /\ err = NoError
  /\ Len(ops) < MaxOps
  /\ lines' = cleanUpCcLines(lines)
  /\ ops' = Append(ops, "cleanUpCcLines")
  /\ UNCHANGED <<text, entries, dict, result, err>>

CallReformat ==
  /\ err = NoError
  /\ Len(ops) < MaxOps
  /\ lines' = reformat(lines).lines
  /\ err' = reformat(lines).err
  /\ ops' = Append(ops, "reformat")
  /\ UNCHANGED <<text, entries, dict, result>>

CallFindUntranslatedNames ==
  /\ err = NoError
  /\ Len(ops) < MaxOps
  /\ result' = findUntranslatedNames(lines).value
  /\ err' = findUntranslatedNames(lines).err
  /\ ops' = Append(ops, "findUntranslatedNames")
  /\ UNCHANGED <<text, entries, dict, lines>>

NextList ==
  \/ CallCleanUpCcLines
  \/ CallReformat
  \/ CallFindUntranslatedNames

SpecList == InitList /\ [][NextList]_vars

\* a field that is absent or empty
Empty(field) == field = Null \/ field = Undefined \/ field = <<>>

\* C4: after cleanUpCcLines the list holds exactly the records whose cleaned
\* primary text is not null, in their original order; a record whose primary
\* text is a credit line, or cleans up to nothing, is gone.
C4_CleanUpDropsNullRecords ==
  [][ ops' = Append(ops, "cleanUpCcLines")
        => LET cleaned == [k \in 1..Len(lines) |->
                             [lines[k] EXCEPT !.eng = ccCleanup(lines[k].eng)]]
               HasEng(line) == line.eng # Null
           IN lines' = SelectSeq(cleaned, HasEng) ]_vars

\* C6: a second reformat leaves the list as the first one left it: the same
\* records in the same order with the same primary and secondary text.
C6_ReformatIsIdempotent ==
  [][ ( /\ ops # <<>>
        /\ Last(ops) = "reformat"
        /\ ops' = Append(ops, "reformat")
        /\ err' = NoError )
        => lines' = lines ]_vars

\* C8: after a reformat pass that completes, no record has both its primary
\* and its secondary text absent or empty, and the records left are exactly
\* the records with a formatted field that is not empty, in their original
\* order.
C8_ReformatDropsEmptyRecords ==
  [][ (ops' = Append(ops, "reformat") /\ err' = NoError)
        => LET formatted ==
                 [k \in 1..Len(lines) |->
                    [lines[k] EXCEPT !.eng = reformatLine(lines[k].eng).value,
                                     !.chs = reformatLine(lines[k].chs).value]]
               NotEmpty(line) == ~Empty(line.eng) \/ ~Empty(line.chs)
           IN /\ lines' = SelectSeq(formatted, NotEmpty)
              /\ \A k \in 1..Len(lines') :
                   ~(Empty(lines'[k].eng) /\ Empty(lines'[k].chs)) ]_vars

\* a reformat pass completed, dropped a record and kept one
C8_Witness ==
  /\ ops = <<"reformat">>
  /\ err = NoError
  /\ Len(lines) >= 1
  /\ Len(lines) < Len(entries)
  /\ \E k \in 1..Len(entries) : entries[k].eng = <<" ">>

\* C9: for every list, the empty list and a list without secondary text
\* included, findUntranslatedNames raises nothing and returns a list (sorted,
\* free of duplicates and of the single words of a longer name found).
C9_FindUntranslatedNamesReturns ==
  (ops # <<>> /\ Last(ops) = "findUntranslatedNames")
    => /\ err = NoError
       /\ result # Undefined
       /\ \A i, j \in 1..Len(result) : i # j => result[i] # result[j]

----------------------------------------------------------------------------
(* SpecTranslate: a dictionary file is read with constructRawNameDict and  *)
(* the names of a list are translated with it.  The keys of the file are   *)
(* words and spaces, which a regular expression reads as themselves.       *)

\* the lines of a dictionary file
DictLines ==
  { \* a full name of two words: Al Bo = zh1/zh2
    <<"A", "l", " ", "B", "o", " ", "=", " ", "zh1", "/", "zh2">>,
    \* a full name of one word, a part of the first: Al=zh3/zh4
    <<"A", "l", "=", "zh3", "/", "zh4">>,
    \* a full name whose first word has no rendering: Bo Cy=/zh3
    <<"B", "o", " ", "C", "y", "=", "/", "zh3">>,
    \* a name without a rendering: Cy =
    <<"C", "y", " ", "=">> }

\* the dictionary files of n lines
DictTexts(n) == { Join(f, <<"LF">>) : f \in [1..n -> DictLines] }

\* the fields (eng, chs) of the records of a list to translate
TranslateFields ==
  { <<<<"A", "l", " ", "B", "o">>, Null>>,
    <<<<"A", "l">>, <<"A", "l", " ", "B", "o">>>>,
    <<Null, <<"B", "o">>>>,
    <<<<"H", "i">>, <<"zh1", " ", "A", "l">>>> }

TranslateLists(n) ==
  { [k \in 1..n |-> Record(k, f[k][1], f[k][2])] : f \in [1..n -> TranslateFields] }

InitTranslate ==
  /\ \E n \in 0..MaxDictEntries : text \in DictTexts(n)
  /\ \E n \in 0..MaxLines : lines \in TranslateLists(n)
  /\ entries = lines
  /\ dict = <<>>
  /\ result = Undefined
  /\ err = NoError
  /\ ops = <<>>

CallConstructRawNameDict ==
  /\ ops = <<>>
  /\ dict' = constructRawNameDict(text)
  /\ ops' = <<"constructRawNameDict">>
  /\ UNCHANGED <<text, entries, lines, result, err>>

CallTranslateNames ==
  /\ ops # <<>>
  /\ Len(ops) < MaxOps
  /\ \E fullOrder \in KeyOrders(organizeNameDict(dict).fullNames),
        partialOrder \in KeyOrders(organizeNameDict(dict).partialNames) :
       lines' = listTranslateNames(lines, dict, fullOrder, partialOrder)
  /\ ops' = Append(ops, "translateNames")
  /\ UNCHANGED <<text, entries, dict, result, err>>

NextTranslate ==
  \/ CallConstructRawNameDict
  \/ CallTranslateNames

SpecTranslate == InitTranslate /\ [][NextTranslate]_vars

\* the orders of the keys of a table in which no key comes before a longer one
LongestFirst(table) ==
  { [k \in 1..Len(table) |-> Keys(table)[p[k]]] : p \in Permutations(1..Len(table)) }
  \cap { o \in [1..Len(table) -> {table[k].key : k \in 1..Len(table)}] :
           \A i, j \in 1..Len(table) : i < j => Len(o[i]) >= Len(o[j]) }

\* C7: translateNames applies the keys of each table, the full names and then
\* the partial names, in an order of non-increasing key length; so a key that
\* holds a shorter key of its table is replaced by its own rendering, whole.
C7_LongestKeyFirst ==
  ops = <<"constructRawNameDict", "translateNames">>
    => \E fullOrder \in LongestFirst(organizeNameDict(dict).fullNames),
          partialOrder \in LongestFirst(organizeNameDict(dict).partialNames) :
         lines = listTranslateNames(entries, dict, fullOrder, partialOrder)

\* C10: the translate pass, with a dictionary built by constructRawNameDict,
\* changes secondary text only: the records, their order, and the index, the
\* timestamp and the primary text of each stay as they were; record i gets
\* segment i of the translated block, or null, never the empty string, if
\* that segment is empty.
C10_TranslateChangesOnlySecondaryText ==
  [][ ops' = Append(ops, "translateNames")
        => /\ Len(lines') = Len(lines)
           /\ \A k \in 1..Len(lines) :
                /\ lines'[k].index = lines[k].index
                /\ lines'[k].timestamp = lines[k].timestamp
                /\ lines'[k].eng = lines[k].eng
                /\ lines'[k].chs # <<>>
           /\ \E fullOrder \in KeyOrders(organizeNameDict(dict).fullNames),
                 partialOrder \in KeyOrders(organizeNameDict(dict).partialNames) :
                LET block == translateNames(JoinChs(lines), organizeNameDict(dict),
                                            fullOrder, partialOrder)
                IN \A k \in 1..Len(lines) :
                     lines'[k].chs = IF Split(block, <<"LF">>)[k] = <<>> THEN Null
                                     ELSE Split(block, <<"LF">>)[k] ]_vars

\* a translate pass has emptied the secondary text of one record and
\* rewritten that of another
C10_Witness ==
  /\ ops = <<"constructRawNameDict", "translateNames">>
  /\ \E k \in 1..Len(lines) : entries[k].chs # Null /\ lines[k].chs = Null
  /\ \E k \in 1..Len(lines) :
       lines[k].chs # Null /\ lines[k].chs # entries[k].chs

============================================================================
